---- MODULE Spec2Model ----
(***************************************************************************)
(* Model of src/src/triadic_interaction/visualization.py: the seven        *)
(* renderers of the triadic-interaction node dynamics package.  Every      *)
(* renderer is a straight-line Python function; a call is one action.  The *)
(* process-wide state a call touches is matplotlib's: the style dictionary *)
(* (rcParams), the registry of open figures (pyplot) and the files written *)
(* by savefig.  Arrays are modelled by their shapes, and by their entries  *)
(* where the code looks at the entries.                                    *)
(***************************************************************************)
EXTENDS Integers, Sequences, FiniteSets, TLC

VARIABLES
    rcParams,   \* plt.rcParams restricted to the keys of MPL_CONFIG
    figs,       \* numbers of the figures pyplot currently holds open
    files,      \* output path -> number of times savefig wrote it
    last,       \* record of the most recent renderer call
    ncalls,     \* number of renderer calls made so far
    nfailed,    \* number of those calls that raised
    thr,        \* thread -> the renderer call it is executing and its position
    log         \* the calls of a repeated-call run, in order

vars == <<rcParams, figs, files, last, ncalls, nfailed, thr, log>>

(***************************************************************************)
(* Bounds of the model.                                                    *)
(***************************************************************************)
MaxCalls == 2        \* renderer calls in one behaviour
MaxNodes == 2        \* nodes of a timeseries tensor / a list of PDFs
MaxTsSamples == 3    \* length of the sample axis of a timeseries tensor
MaxSamples == 2      \* length of the sample axis of a PDF / CMI estimate
MaxData == 2         \* length of a list of grids (list mode)
MaxCovCols == 10     \* flattened covariance entries per sample
MaxRepeat == 3       \* calls of a repeated-call run
MaxEvoNodes == 4     \* nodes of a density-evolution array

\* Output paths; savefig cannot write the last one (its directory is missing).
Paths == {"a.pdf", "b.pdf", "/missing/c.pdf"}
Writable(path) == path # "/missing/c.pdf"
\* (n_timesteps, t_max) pairs offered to plot_timeseries
TimeAxes == {<<2, 10>>, <<3, 1>>}
None == "None"
NoErr == "none"

(***************************************************************************)
(* MPL_CONFIG, values kept as their Python source text.                    *)
(***************************************************************************)
MPL_CONFIG ==
    ("figure.figsize" :> "(3, 2.5)") @@ ("font.size" :> "7") @@
    ("axes.labelsize" :> "9") @@ ("axes.linewidth" :> "0.5") @@
    ("xtick.direction" :> "in") @@ ("xtick.major.size" :> "3") @@
    ("xtick.major.width" :> "0.5") @@ ("xtick.minor.size" :> "1.5") @@
    ("xtick.minor.width" :> "0.5") @@ ("xtick.minor.visible" :> "False") @@
    ("xtick.labelsize" :> "7") @@ ("xtick.top" :> "True") @@
    ("ytick.direction" :> "in") @@ ("ytick.major.size" :> "3") @@
    ("ytick.major.width" :> "0.5") @@ ("ytick.minor.size" :> "1.5") @@
    ("ytick.minor.width" :> "0.5") @@ ("ytick.minor.visible" :> "False") @@
    ("ytick.labelsize" :> "7") @@ ("ytick.right" :> "True") @@
    ("lines.linewidth" :> "1.0") @@ ("lines.markersize" :> "3") @@
    ("grid.linewidth" :> "0.5") @@ ("legend.fontsize" :> "6") @@
    ("legend.frameon" :> "False") @@ ("legend.loc" :> "best") @@
    ("legend.handlelength" :> "2.5") @@ ("savefig.bbox" :> "tight") @@
    ("savefig.pad_inches" :> "0.05") @@ ("savefig.transparent" :> "True") @@
    ("mathtext.default" :> "regular")

\* an update that keeps the values already set
RcKeep(rc) == [k \in DOMAIN rc |-> rc[k]]
\* plt.rcParams.update(MPL_CONFIG): every key of MPL_CONFIG is overwritten.
RcUpdate(rc) ==
    [k \in DOMAIN rc |-> IF k \in DOMAIN MPL_CONFIG THEN MPL_CONFIG[k] ELSE rc[k]]

(***************************************************************************)
(* Drawing operations.  A renderer's body is a sequence of steps; a step   *)
(* either raises or issues drawing operations.  Chain runs the steps in    *)
(* order and stops at the first one that raises.                           *)
(***************************************************************************)
Op(op, panel, x, y, label, lo, hi, num) ==
    [op |-> op, panel |-> panel, x |-> x, y |-> y, label |-> label,
     lo |-> lo, hi |-> hi, num |-> num]

Ok(ops) == [err |-> NoErr, ops |-> ops]
Raise(e) == [err |-> e, ops |-> <<>>]
Skip == Ok(<<>>)

SetMin(S) == CHOOSE m \in S : \A k \in S : m <= k
SetMax(S) == CHOOSE m \in S : \A k \in S : k <= m

RECURSIVE Flatten(_)
Flatten(ss) == IF ss = <<>> THEN <<>> ELSE Head(ss) \o Flatten(Tail(ss))

Chain(steps) ==
    LET ss == steps
        bad == {k \in 1..Len(ss) : ss[k].err # NoErr}
        stop == IF bad = {} THEN Len(ss)
                ELSE CHOOSE k \in bad : \A m \in bad : k <= m
    IN [err |-> IF bad = {} THEN NoErr ELSE ss[stop].err,
        ops |-> Flatten([k \in 1..stop |-> ss[k].ops])]

\* "for k in range(n): body(k)" is Chain([k \in 1..n |-> body(k - 1)])

(***************************************************************************)
(* plt.subplots(nrows, ncols) with the default squeeze=True: one Axes for  *)
(* a 1x1 grid, a 1-D array when one dimension is 1, else a 2-D array.      *)
(***************************************************************************)
Subplots(nrows, ncols) ==
    [rows |-> nrows, cols |-> ncols,
     kind |-> IF nrows = 1 /\ ncols = 1 THEN "axes"
              ELSE IF nrows = 1 \/ ncols = 1 THEN "1d" ELSE "2d"]

\* ax (no subscript): the object subplots returned is used as an Axes
AxSelf(ax) ==
    IF ax.kind = "axes" THEN [err |-> NoErr, panel |-> <<0, 0>>]
    ELSE [err |-> "AttributeError", panel |-> <<0, 0>>]

\* ax[i], i >= 0 or i = -1
AxIndex(ax, i) ==
    LET len == ax.rows * ax.cols
        k == IF i = -1 THEN len - 1 ELSE i
    IN IF ax.kind = "axes" THEN [err |-> "TypeError", panel |-> <<0, 0>>]
       ELSE IF ax.kind = "2d" THEN [err |-> "AttributeError", panel |-> <<0, 0>>]
       ELSE IF k < 0 \/ k >= len THEN [err |-> "IndexError", panel |-> <<0, 0>>]
       ELSE [err |-> NoErr,
             panel |-> IF ax.rows = 1 THEN <<0, k>> ELSE <<k, 0>>]

\* ax[j, i], j >= 0 or j = -1
AxIndex2(ax, j, i) ==
    LET r == IF j = -1 THEN ax.rows - 1 ELSE j
    IN IF ax.kind = "axes" THEN [err |-> "TypeError", panel |-> <<0, 0>>]
       ELSE IF ax.kind = "1d" THEN [err |-> "IndexError", panel |-> <<0, 0>>]
       ELSE IF r < 0 \/ r >= ax.rows \/ i < 0 \/ i >= ax.cols
            THEN [err |-> "IndexError", panel |-> <<0, 0>>]
       ELSE [err |-> NoErr, panel |-> <<r, i>>]

\* a method call on a selected Axes: the selection is evaluated first
On(sel, op, x, y, label, lo, hi, num) ==
    IF sel.err # NoErr THEN Raise(sel.err)
    ELSE Ok(<<Op(op, sel.panel, x, y, label, lo, hi, num)>>)

(***************************************************************************)
(* The tail every renderer ends with: fig.tight_layout(), then             *)
(* fig.savefig(output_file), then plt.close(fig).  savefig raises OSError  *)
(* when the path cannot be written.  No renderer has a try/finally, so a   *)
(* raise anywhere skips everything after it.                               *)
(***************************************************************************)
Finish(body, path, close) ==
    LET b == body
    IN IF b.err # NoErr
       THEN [err |-> b.err, ops |-> b.ops, created |-> TRUE,
             nsaved |-> 0, closed |-> FALSE]
       ELSE IF ~Writable(path)
       THEN [err |-> "OSError", ops |-> b.ops, created |-> TRUE,
             nsaved |-> 0, closed |-> FALSE]
       ELSE [err |-> NoErr, ops |-> b.ops, created |-> TRUE,
             nsaved |-> 1, closed |-> close]

\* a raise before plt.subplots
RaisedEarly(e) ==
    [err |-> e, ops |-> <<>>, created |-> FALSE, nsaved |-> 0, closed |-> FALSE]

(***************************************************************************)
(* plot_timeseries(X, output_file, t_max, n_samples, separate, theory)     *)
(* a.shape = <<n_nodes, n_timesteps, S>> is the shape of X.                *)
(***************************************************************************)
TsLabel(n, i) == "node " \o ToString(n + 1) \o ", sample# " \o ToString(i + 1)
TsData(n, i) == "X[" \o ToString(n) \o ",:," \o ToString(i) \o "]"

\* X[n, :, i]: numpy raises IndexError when i is outside the sample axis
TsSampleOk(a, i) == i < a.S

\* the loops "for i in range(n_samples): for n in range(n_nodes)"
TsCurvesAllSamples(a) == a.S * a.n_nodes
TsCurves(a) == a.n_samples * a.n_nodes

TsCombined(a) ==
    LET ax == Subplots(1, 1)
        curve(k) ==
            LET i == k \div a.n_nodes
                n == k % a.n_nodes
            IN IF ~TsSampleOk(a, i) THEN Raise("IndexError")
               ELSE On(AxSelf(ax), "plot", "T", TsData(n, i), TsLabel(n, i),
                       0, a.t_max, a.n_timesteps)
    IN Chain(<<
        Chain([k \in 1..TsCurves(a) |-> curve(k - 1)]),
        On(AxSelf(ax), "set_xlabel", "", "", "$T$", 0, 0, 0),
        On(AxSelf(ax), "set_ylabel", "", "", "$X_{i}$", 0, 0, 0),
        On(AxSelf(ax), "set_xlim", "", "", "", 0, a.t_max, 0),
        On(AxSelf(ax), "legend", "", "", "center left", 0, 0, 0) >>)

TsSeparate(a) ==
    LET ax == Subplots(a.n_nodes, 1)
        curve(k) ==
            LET i == k \div a.n_nodes
                n == k % a.n_nodes
            IN Chain(<<
                IF AxIndex(ax, n).err # NoErr THEN Raise(AxIndex(ax, n).err)
                ELSE IF ~TsSampleOk(a, i) THEN Raise("IndexError")
                ELSE On(AxIndex(ax, n), "plot", "T", TsData(n, i), TsLabel(n, i),
                        0, a.t_max, a.n_timesteps),
                On(AxIndex(ax, n), "set_ylabel", "", "",
                   "$X_" \o ToString(n + 1) \o "$", 0, 0, 0),
                On(AxIndex(ax, n), "set_xlim", "", "", "", 0, a.t_max, 0) >>)
        average(n) ==
            On(AxIndex(ax, n), "plot", "T",
               "mean(X[" \o ToString(n) \o ",:,:],axis=1)",
               "node " \o ToString(n + 1) \o " average", 0, a.t_max, a.n_timesteps)
    IN Chain(<<
        Chain([k \in 1..TsCurves(a) |-> curve(k - 1)]),
        Chain([k \in 1..a.n_nodes |-> average(k - 1)]),
        IF a.theory
        THEN On(AxIndex(ax, 0), "plot", "T", "theory(T)", "no TI",
                0, a.t_max, a.n_timesteps)
        ELSE Skip,
        On(AxIndex(ax, -1), "set_xlabel", "", "", "$T$", 0, 0, 0) >>)

plot_timeseries(a, path) ==
    Finish(IF ~a.separate THEN TsCombined(a) ELSE TsSeparate(a), path, TRUE)

\* theory is read in separated mode only; it is left None in combined mode
TsArgs ==
    {a \in [n_nodes : 1..MaxNodes, n_timesteps : {2, 3}, S : 1..MaxTsSamples,
             t_max : {1, 10}, n_samples : 1..(MaxTsSamples + 1),
             separate : BOOLEAN, theory : BOOLEAN] :
        /\ <<a.n_timesteps, a.t_max>> \in TimeAxes
        /\ (a.theory => a.separate)}

(***************************************************************************)
(* plot_pdf(probs, bins, output_file, f_theory, logscale, parallel)        *)
(* a.probs[i+1] is the length of the sample axis of probs[i], 0 for a 1-D  *)
(* array; node i's bins span [i*spread, i*spread + 2].                     *)
(***************************************************************************)
PdfXmin(a, i) == i * a.spread
PdfXmax(a, i) == i * a.spread + 2
PdfNodes(a) == Len(a.probs)
Idx(name, i) == name \o "[" \o ToString(i) \o "]"
PdfMean(i) == "mean(" \o Idx("probs", i) \o ",axis=1)"
PdfStd(i) == "std(" \o Idx("probs", i) \o ",axis=1)"

\* combined mode: the error bar of a 2-D node is drawn unless logscale
PdfCombinedErrorbar(a, i) == ~a.logscale

\* separated mode: a 2-D node with more than one sample always gets one
PdfParallelErrorbar(a, i) == TRUE

PdfCombined(a) ==
    LET ax == Subplots(1, 1)
        n_nodes == PdfNodes(a)
        x_min == SetMin({PdfXmin(a, i) : i \in 0..(n_nodes - 1)})
        x_max == SetMax({PdfXmax(a, i) : i \in 0..(n_nodes - 1)})
        node(i) ==
            IF a.probs[i + 1] = 0
            THEN On(AxSelf(ax), "scatter", Idx("bins", i), Idx("probs", i),
                    "X_" \o ToString(i + 1), 0, 0, 0)
            ELSE Chain(<<
                On(AxSelf(ax), "scatter", Idx("bins", i), PdfMean(i),
                   "X_" \o ToString(i + 1), 0, 0, 0),
                IF PdfCombinedErrorbar(a, i)
                THEN On(AxSelf(ax), "errorbar", Idx("bins", i), PdfMean(i),
                        PdfStd(i), 0, 0, a.probs[i + 1])
                ELSE Skip >>)
        theory(i) ==
            On(AxSelf(ax), "plot", "linspace(x_min,x_max)",
               Idx("f_theory", i) \o "(x_theory)",
               "theory ($X_" \o ToString(i + 1) \o "$)", x_min, x_max, 50)
    IN Chain(<<
        On(AxSelf(ax), "set_xlabel", "", "", "$X_{i}$", 0, 0, 0),
        On(AxSelf(ax), "set_ylabel", "", "", "PDF $p^{st}(X_{i})$", 0, 0, 0),
        On(AxSelf(ax), "set_xlim", "", "", "", x_min, x_max, 0),
        Chain([k \in 1..n_nodes |-> node(k - 1)]),
        IF a.f_theory THEN Chain([k \in 1..n_nodes |-> theory(k - 1)]) ELSE Skip,
        IF a.logscale THEN On(AxSelf(ax), "set_yscale", "", "", "log", 0, 0, 0)
        ELSE Skip >>)

PdfParallel(a) ==
    LET n_nodes == PdfNodes(a)
        axs == Subplots(1, n_nodes)
        node(i) ==
            Chain(<<
                IF a.probs[i + 1] = 0 \/ a.probs[i + 1] = 1
                THEN On(AxIndex(axs, i), "scatter", Idx("bins", i),
                        Idx("probs", i), "", 0, 0, 0)
                ELSE Chain(<<
                    On(AxIndex(axs, i), "scatter", Idx("bins", i), PdfMean(i),
                       "", 0, 0, 0),
                    IF PdfParallelErrorbar(a, i)
                    THEN On(AxIndex(axs, i), "errorbar", Idx("bins", i),
                            PdfMean(i), PdfStd(i), 0, 0, a.probs[i + 1])
                    ELSE Skip >>),
                On(AxIndex(axs, i), "set_xlabel", "", "",
                   "$X_" \o ToString(i + 1) \o "$", 0, 0, 0),
                On(AxIndex(axs, i), "set_xlim", "", "", "",
                   PdfXmin(a, i), PdfXmax(a, i), 0),
                IF a.logscale
                THEN On(AxIndex(axs, i), "set_yscale", "", "", "log", 0, 0, 0)
                ELSE Skip,
                IF a.f_theory
                THEN Chain(<<
                    On(AxIndex(axs, i), "plot", "linspace(Xmin[i],Xmax[i])",
                       Idx("f_theory", i) \o "(x_theory)", "no TI",
                       PdfXmin(a, i), PdfXmax(a, i), 100),
                    On(AxIndex(axs, i), "legend", "", "", "", 0, 0, 0) >>)
                ELSE Skip >>)
    IN Chain(<<
        On(AxIndex(axs, 0), "set_ylabel", "", "", "PDF $p^{st}(X_{i})$", 0, 0, 0),
        Chain([k \in 1..n_nodes |-> node(k - 1)]) >>)

plot_pdf(a, path) ==
    Finish(IF ~a.parallel THEN PdfCombined(a) ELSE PdfParallel(a), path, TRUE)

PdfArgs ==
    [probs : UNION {[1..n -> 0..MaxSamples] : n \in 1..MaxNodes},
     spread : {1}, f_theory : BOOLEAN, logscale : BOOLEAN, parallel : BOOLEAN]

(***************************************************************************)
(* plot_covariance(cov, output_file, theory)                               *)
(* a.ncols is the number of columns of cov (flattened matrix entries);     *)
(* a.theory is the length of the theory vector, 0 for None.                *)
(***************************************************************************)
CovLabels ==
    << "$\\Sigma_{11}$", "$\\Sigma_{12}$", "$\\Sigma_{13}$",
       "$\\Sigma_{21}$", "$\\Sigma_{22}$", "$\\Sigma_{23}$",
       "$\\Sigma_{31}$", "$\\Sigma_{32}$", "$\\Sigma_{33}$" >>

CovColors ==
    << "#8c8cd1", "#7fb2e2", "#7bd4d7",
       "#7cdd9e", "#92d874", "#b4d645",
       "#d5ca47", "#f5b43d", "#f58b33" >>

\* linewidths = [0.5] * 9
CovLinewidths == 9

\* ax.set_xticklabels(labels) after ax.set_xticks(inds): the axis holds a
\* FixedLocator with len(inds) locations, and matplotlib raises ValueError
\* when the number of labels differs from the number of locations.
CovTickLabelsUnchecked(ncols) ==
    Ok(<<Op("set_xticklabels", <<0, 0>>, "", "", "labels", 0, 0, Len(CovLabels))>>)
CovTickLabels(ncols) ==
    IF Len(CovLabels) # ncols THEN Raise("ValueError")
    ELSE Ok(<<Op("set_xticklabels", <<0, 0>>, "", "", "labels", 0, 0, Len(CovLabels))>>)

CovBody(a) ==
    LET ax == Subplots(1, 1)
        body(c) == On(AxSelf(ax), "violin_body", "", "cov[:," \o ToString(c) \o "]",
                      "", 0, 0, c)
        style(i) ==
            IF i >= Len(CovColors) THEN Raise("IndexError")
            ELSE Chain(<<
                Ok(<<Op("set_facecolor", <<0, 0>>, "", "", CovColors[i + 1], 0, 0, i)>>),
                Ok(<<Op("set_edgecolor", <<0, 0>>, "", "", "black", 0, 0, i)>>),
                IF i >= CovLinewidths THEN Raise("IndexError")
                ELSE Ok(<<Op("set_linewidths", <<0, 0>>, "", "", "0.5", 0, 0, i)>>) >>)
    IN Chain(<<
        Chain([k \in 1..a.ncols |-> body(k - 1)]),
        Chain([k \in 1..a.ncols |-> style(k - 1)]),
        On(AxSelf(ax), "scatter", "inds", "mean(cov,axis=0)", "", 0, 0, a.ncols),
        On(AxSelf(ax), "vlines", "inds", "quartile1,quartile3", "", 0, 0, a.ncols),
        On(AxSelf(ax), "vlines", "inds", "whiskers_min,whiskers_max", "", 0, 0, a.ncols),
        On(AxSelf(ax), "hlines", "inds", "medians", "", 0, 0, a.ncols),
        IF a.theory = 0 THEN Skip
        ELSE IF a.theory # a.ncols THEN Raise("ValueError")
        ELSE Chain(<<
            On(AxSelf(ax), "scatter", "inds", "theory", "no TI", 0, 0, a.ncols),
            On(AxSelf(ax), "legend", "", "", "", 0, 0, 0) >>),
        On(AxSelf(ax), "set_xticks", "inds", "", "", 1, a.ncols, a.ncols),
        CovTickLabels(a.ncols),
        On(AxSelf(ax), "set_xlabel", "", "", "$(i, j)$", 0, 0, 0),
        On(AxSelf(ax), "set_ylabel", "", "", "Covariance $\\Sigma_{ij}$", 0, 0, 0) >>)

plot_covariance(a, path) == Finish(CovBody(a), path, TRUE)

CovArgs ==
    {a \in [ncols : 1..MaxCovCols, theory : 0..MaxCovCols] :
        a.theory \in {0, Len(CovLabels), a.ncols}}

(***************************************************************************)
(* plot_conditional_expectation(Xgrids, cond_exps, stds, orders,           *)
(*                              output_file, theory)                       *)
(* a.list: Xgrids is a list; a.n_cols its length; a.n_bins the length of   *)
(* a grid; a.n_samples the number of samples the estimates were taken      *)
(* over.  a.layout is the shape of each array of cond_exps and stds (in    *)
(* scalar mode, of cond_exps and stds themselves): "rows" is (2, n_bins),  *)
(* one row per conditional expectation, which is what plotting             *)
(* cond_exps[i][j] against Xgrids[i] needs; "docstring" is                 *)
(* (n_bins, n_samples), the shape the docstring gives.                     *)
(***************************************************************************)
ExpLayouts == {"rows", "docstring"}

\* the length of a row, cond_exps[i][j] or stds[i][j]: the second dimension
ExpRowLen(a) == IF a.layout = "rows" THEN a.n_bins ELSE a.n_samples

\* scatter(x, y): x and y must be the same size
ExpScatter(a, sel, x, y) ==
    IF sel.err # NoErr THEN Raise(sel.err)
    ELSE IF ExpRowLen(a) # a.n_bins THEN Raise("ValueError")
    ELSE Ok(<<Op("scatter", sel.panel, x, y, "", 0, 0, 0)>>)

ExpList(a) ==
    LET ax == Subplots(2, a.n_cols)
        cell(k) ==
            LET i == k \div 2
                j == k % 2
                e == Idx(Idx("cond_exps", i), j)
            IN Chain(<<
                ExpScatter(a, AxIndex2(ax, j, i), Idx("Xgrids", i), e),
                \* yerr = stds[i][j] / np.sqrt(stds[i][j].shape[0])
                On(AxIndex2(ax, j, i), "errorbar", Idx("Xgrids", i), e,
                   Idx(Idx("stds", i), j), 0, 0, ExpRowLen(a)),
                On(AxIndex2(ax, j, i), "set_ylabel", "", "", "E[X_j | X_k]", 0, 0, 0),
                IF a.theory
                THEN Chain(<<
                    On(AxIndex2(ax, j, i), "plot", Idx("Xgrids", i),
                       Idx(Idx("theory", i), j), "no TI", 0, 0, 0),
                    On(AxIndex2(ax, j, i), "legend", "", "", "", 0, 0, 0) >>)
                ELSE Skip,
                \* after the inner loop: ax[-1, i].set_xlabel
                IF j = 1
                THEN On(AxIndex2(ax, -1, i), "set_xlabel", "", "", "$X_k$", 0, 0, 0)
                ELSE Skip >>)
    IN Chain([k \in 1..(2 * a.n_cols) |-> cell(k - 1)])

ExpScalar(a) ==
    LET ax == Subplots(1, 2)
        cell(i) ==
            Chain(<<
                \* ax[i].scatter(..., yerr=stds[i], ...): scatter has no yerr
                \* property, matplotlib raises AttributeError
                IF AxIndex(ax, i).err # NoErr THEN Raise(AxIndex(ax, i).err)
                ELSE Raise("AttributeError"),
                \* yerr = stds[i] / np.sqrt(stds.shape[1])
                On(AxIndex(ax, i), "errorbar", "Xgrids", Idx("cond_exps", i),
                   Idx("stds", i), 0, 0, ExpRowLen(a)),
                On(AxIndex(ax, i), "set_xlabel", "", "", "$X_k$", 0, 0, 0),
                On(AxIndex(ax, i), "set_ylabel", "", "", "E[X_j | X_k]", 0, 0, 0),
                \* color='k--' is no colour: ValueError
                IF a.theory THEN Raise("ValueError") ELSE Skip >>)
    IN Chain([k \in 1..2 |-> cell(k - 1)])

plot_conditional_expectation(a, path) ==
    Finish(IF a.list THEN ExpList(a) ELSE ExpScalar(a), path, TRUE)

ExpArgs ==
    {a \in [list : BOOLEAN, n_cols : 0..MaxData, n_bins : {2, 3},
            n_samples : {2, 3}, layout : ExpLayouts, theory : BOOLEAN] :
        a.list <=> a.n_cols >= 1}

(***************************************************************************)
(* plot_conditional_correlation(Xgrids, cond_corr, order, output_file,     *)
(*     std, Xrange, theory, f_supplement, threshold)                       *)
(* a.list: Xgrids is a list, a.n_data its length.  a.data is "1d" for      *)
(* single-sample arrays of shape (n_bins,), "2d" for (n_bins, n_samples)   *)
(* with n_samples > 1.  a.std: std is supplied (a list in list mode, an    *)
(* array in scalar mode) rather than False.  a.supp is the form of         *)
(* f_supplement, a.dict_len the number of entries of the mapping form.     *)
(* Grid i spans [i, i + 2]; Xrange[i] is (-5, 5).                          *)
(***************************************************************************)
SuppForms == {"none", "function", "list", "pairs", "dict"}

\* the number of grids: len(Xgrids) in list mode, one grid in scalar mode
CorrGrids(a) == IF a.list THEN a.n_data ELSE 1

\* lines 782-819: the supplement branch of panel i, list mode
CorrSupplement(a, ax, i) ==
    CASE a.supp = "none" -> Skip
      [] a.supp = "list" ->
            On(AxIndex(ax, i), "plot", Idx("Xgrids", i),
               Idx("f_supplement", i) \o "(Xgrids[i])", "supplement", 0, 0, 0)
      [] a.supp = "pairs" ->
            On(AxIndex(ax, i), "plot", Idx("Xgrids", i),
               Idx("f_supplement", i) \o "[0](Xgrids[i])",
               Idx("f_supplement", i) \o "[1]", 0, 0, 0)
      [] a.supp = "function" ->
            On(AxIndex(ax, i), "plot", Idx("Xgrids", i),
               "f_supplement(Xgrids[i])", "supplement", 0, 0, 0)
      [] a.supp = "dict" ->
            IF a.dict_len # a.n_data THEN Raise("ValueError")
            \* f_supplement.values()[i]: a dict view is not subscriptable
            ELSE IF AxIndex(ax, i).err # NoErr THEN Raise(AxIndex(ax, i).err)
            ELSE Raise("TypeError")

CorrList(a) ==
    LET ax == Subplots(1, a.n_data)
        panel(i) ==
            Chain(<<
                IF a.data = "2d"
                THEN On(AxIndex(ax, i), "scatter", Idx("Xgrids", i),
                        "nanmean(" \o Idx("cond_corr", i) \o ",axis=1)", "", 0, 0, 0)
                ELSE Chain(<<
                    On(AxIndex(ax, i), "scatter", Idx("Xgrids", i),
                       Idx("cond_corr", i), "", 0, 0, 0),
                    IF a.std
                    THEN On(AxIndex(ax, i), "errorbar", Idx("Xgrids", i),
                            Idx("cond_corr", i), Idx("std", i), 0, 0, 0)
                    ELSE Skip >>),
                IF a.Xrange
                THEN On(AxIndex(ax, i), "set_xlim", "", "", "Xrange", -5, 5, 0)
                ELSE On(AxIndex(ax, i), "set_xlim", "", "", "grid", i, i + 2, 0),
                On(AxIndex(ax, i), "set_ylim", "", "", "", -1, 1, 0),
                IF a.theory
                THEN On(AxIndex(ax, i), "plot", Idx("Xgrids", i),
                        Idx("theory", i) \o "(Xgrids[i])", "no TI", 0, 0, 0)
                ELSE Skip,
                CorrSupplement(a, ax, i),
                IF a.threshold
                THEN On(AxIndex(ax, i), "axvline", "threshold", "", "", 0, 0, 0)
                ELSE Skip,
                On(AxIndex(ax, i), "legend", "", "", "lower right", 0, 0, 0),
                On(AxIndex(ax, i), "set_xlabel", "", "", "$X_k$", 0, 0, 0),
                On(AxIndex(ax, i), "set_ylabel", "", "", "rho(X_i, X_j | X_k)", 0, 0, 0)
            >>)
    IN Chain([k \in 1..a.n_data |-> panel(k - 1)])

\* lines 837-890: scalar mode never reads f_supplement, Xrange or threshold
CorrScalar(a) ==
    LET ax == Subplots(1, 1)
    IN Chain(<<
        IF ~a.std
        THEN \* scatter of n_bins grid points against n_bins * n_samples values
             IF a.data = "2d" THEN Raise("ValueError")
             ELSE On(AxSelf(ax), "scatter", "Xgrids", "cond_corr", "", 0, 0, 0)
        \* ax.errorbar(Xgrids, cond_corr_mean, ...): cond_corr_mean is a local
        \* assigned only in the list branch
        ELSE Raise("UnboundLocalError"),
        IF a.theory
        THEN Chain(<<
            On(AxSelf(ax), "plot", "Xgrids", "theory(Xgrids)", "no TI", 0, 0, 0),
            On(AxSelf(ax), "legend", "", "", "", 0, 0, 0) >>)
        ELSE Skip,
        On(AxSelf(ax), "set_xlim", "", "", "grid", 0, 2, 0),
        On(AxSelf(ax), "set_xlabel", "", "", "$X_k$", 0, 0, 0),
        On(AxSelf(ax), "set_ylabel", "", "", "rho(X_i, X_j | X_k)", 0, 0, 0) >>)

plot_conditional_correlation(a, path) ==
    Finish(IF a.list THEN CorrList(a) ELSE CorrScalar(a), path, TRUE)

\* Xrange and threshold are read in list mode only and left None otherwise;
\* a list or a list of pairs has one element per grid and goes with a list
\* of grids.
CorrArgs ==
    {a \in [list : BOOLEAN, n_data : 0..MaxData, data : {"1d", "2d"},
            std : BOOLEAN, Xrange : BOOLEAN, theory : BOOLEAN,
            threshold : BOOLEAN, supp : SuppForms, dict_len : 0..(MaxData + 1)] :
        /\ a.list <=> a.n_data >= 1
        /\ (a.Xrange \/ a.threshold) => a.list
        /\ a.supp \in {"list", "pairs"} => a.list
        /\ a.supp = "dict" <=> a.dict_len >= 1
        /\ a.supp = "dict" => a.dict_len \in {CorrGrids(a), CorrGrids(a) + 1} }

(***************************************************************************)
(* plot_conditional_mutual_information(Xgrids, cmi, order, output_file,    *)
(*                                     std, theory)                        *)
(* a.n_samples is the length of the sample axis of a 2-D cmi[i], 0 for a   *)
(* 1-D array.  Grid i spans [i, i + 2].                                    *)
(***************************************************************************)
CmiList(a) ==
    LET ax == Subplots(1, a.n_data)
        mean(i) == "mean(" \o Idx("cmi", i) \o ",axis=1)"
        panel(i) ==
            Chain(<<
                IF a.n_samples >= 1
                THEN Chain(<<
                    On(AxIndex(ax, i), "scatter", Idx("Xgrids", i), mean(i), "", 0, 0, 0),
                    IF a.std
                    THEN On(AxIndex(ax, i), "errorbar", Idx("Xgrids", i), mean(i),
                            "std(" \o Idx("cmi", i) \o ",axis=1)", 0, 0, a.n_samples)
                    ELSE Skip >>)
                ELSE On(AxIndex(ax, i), "scatter", Idx("Xgrids", i), Idx("cmi", i),
                        "", 0, 0, 0),
                IF a.theory
                THEN Chain(<<
                    On(AxIndex(ax, i), "plot", Idx("Xgrids", i),
                       Idx("theory", i) \o "(Xgrids[i])", "no TI", 0, 0, 0),
                    On(AxIndex(ax, i), "legend", "", "", "", 0, 0, 0) >>)
                ELSE Skip,
                On(AxIndex(ax, i), "set_xlim", "", "", "grid", i, i + 2, 0),
                On(AxIndex(ax, i), "set_xlabel", "", "", "$X_k$", 0, 0, 0),
                On(AxIndex(ax, i), "set_ylabel", "", "", "I(X_i; X_j | X_k)", 0, 0, 0)
            >>)
    IN Chain([k \in 1..a.n_data |-> panel(k - 1)])

CmiScalar(a) ==
    LET ax == Subplots(1, 1)
    IN Chain(<<
        \* scatter of n_bins grid points against n_bins * n_samples values
        IF a.n_samples >= 2 THEN Raise("ValueError")
        ELSE On(AxSelf(ax), "scatter", "Xgrids", "cmi", "", 0, 0, 0),
        IF a.theory
        THEN Chain(<<
            On(AxSelf(ax), "plot", "Xgrids", "theory(Xgrids)", "no TI", 0, 0, 0),
            On(AxSelf(ax), "legend", "", "", "", 0, 0, 0) >>)
        ELSE Skip,
        On(AxSelf(ax), "set_xlim", "", "", "grid", 0, 2, 0),
        On(AxSelf(ax), "set_xlabel", "", "", "$X_k$", 0, 0, 0),
        On(AxSelf(ax), "set_ylabel", "", "", "I(X_i; X_j | X_k)", 0, 0, 0) >>)

plot_conditional_mutual_information(a, path) ==
    Finish(IF a.list THEN CmiList(a) ELSE CmiScalar(a), path, TRUE)

CmiArgs ==
    {a \in [list : BOOLEAN, n_data : 0..MaxData, n_samples : 0..MaxSamples,
            std : BOOLEAN, theory : BOOLEAN] :
        a.list <=> a.n_data >= 1}

(***************************************************************************)
(* visualise_evolution(evolution_data, x_grid, time_grid, output_file)     *)
(* a.data[i+1] is the entry of node i's slice evolution_data[i].           *)
(***************************************************************************)
EvoVals == {-1, 0, 1, 2}

\* evolution_data[evolution_data > 0.]
EvoPositive(data) == {data[k] : k \in {m \in DOMAIN data : data[m] > 0}}
\* a normalization whose floor is the global minimum of the array
EvoNormGlobalMin(data) ==
    [vmin |-> SetMin({data[k] : k \in DOMAIN data}),
     vmax |-> SetMax({data[k] : k \in DOMAIN data})]
\* colors.LogNorm(vmin=np.min(...), vmax=np.max(evolution_data))
EvoNorm(data) ==
    [vmin |-> SetMin(EvoPositive(data)),
     vmax |-> SetMax({data[k] : k \in DOMAIN data})]

\* a layout with one panel per node
EvoBodyPerNode(a) ==
    LET norm == EvoNorm(a.data)
        n_nodes == Len(a.data)
        ax == Subplots(n_nodes, 1)
        node(i) ==
            Chain(<<
                On(AxIndex(ax, i), "imshow", "extent", Idx("evolution_data", i),
                   "norm", norm.vmin, norm.vmax, a.data[i + 1]),
                On(AxIndex(ax, i), "set_ylabel", "", "",
                   "$X_" \o ToString(i + 1) \o "$", 0, 0, 0) >>)
    IN Chain(<<
        Chain([k \in 1..n_nodes |-> node(k - 1)]),
        Ok(<<Op("add_axes", <<-1, -1>>, "", "", "cbar_ax", 0, 0, 0)>>),
        \* ax[2].get_images()[0]: the third panel holds an image only if the
        \* loop reached i = 2
        IF n_nodes < 3 THEN Raise("IndexError")
        ELSE On(AxIndex(ax, 2), "colorbar", "", "", "PDF $p(X_i, t)$",
                norm.vmin, norm.vmax, 0),
        On(AxIndex(ax, 2), "set_xlabel", "", "", "$t$", 0, 0, 0) >>)

EvoBody(a) ==
    LET norm == EvoNorm(a.data)
        ax == Subplots(3, 1)
        n_nodes == Len(a.data)
        node(i) ==
            Chain(<<
                On(AxIndex(ax, i), "imshow", "extent", Idx("evolution_data", i),
                   "norm", norm.vmin, norm.vmax, a.data[i + 1]),
                On(AxIndex(ax, i), "set_ylabel", "", "",
                   "$X_" \o ToString(i + 1) \o "$", 0, 0, 0) >>)
    IN Chain(<<
        Chain([k \in 1..n_nodes |-> node(k - 1)]),
        Ok(<<Op("add_axes", <<-1, -1>>, "", "", "cbar_ax", 0, 0, 0)>>),
        \* ax[2].get_images()[0]: the third panel holds an image only if the
        \* loop reached i = 2
        IF n_nodes < 3 THEN Raise("IndexError")
        ELSE On(AxIndex(ax, 2), "colorbar", "", "", "PDF $p(X_i, t)$",
                norm.vmin, norm.vmax, 0),
        On(AxIndex(ax, 2), "set_xlabel", "", "", "$t$", 0, 0, 0) >>)

\* np.min of an empty selection raises ValueError before the figure exists;
\* the function ends after fig.savefig, without plt.close(fig)
visualise_evolution(a, path) ==
    IF EvoPositive(a.data) = {} THEN RaisedEarly("ValueError")
    ELSE Finish(EvoBody(a), path, FALSE)

\* arrays of 2 to MaxEvoNodes nodes; the nodes past the third panel hold 1
EvoArgs ==
    [data : UNION {{d \in [1..n -> EvoVals] : \A k \in 4..n : d[k] = 1} :
                      n \in 2..MaxEvoNodes}]

(***************************************************************************)
(* The state machine: one action per renderer, each the whole call.        *)
(***************************************************************************)
NewFig == IF figs = {} THEN 1 ELSE 1 + SetMax(figs)

\* plt.gcf(): the figure pyplot holds as active.  Figures are numbered
\* max + 1 and registered in creation order, and closing one leaves the
\* last of the remaining ones active, so the active figure is the one
\* with the largest number.
GcfOldest(open) == IF open = {} THEN 0 ELSE SetMin(open)
Gcf(open) == IF open = {} THEN 0 ELSE SetMax(open)

Threads == {"t1", "t2"}
Idle ==
    [pc |-> "idle", fn |-> None, args |-> <<>>, path |-> None, fig |-> 0,
     res |-> RaisedEarly(NoErr), nstyled |-> 0, touched |-> {}, saved |-> {},
     released |-> {}]

\* the figures a call's statements address: its own, and for plt.colorbar
\* the active one
Touched(ops, fig, open) ==
    {fig} \cup (IF \E k \in DOMAIN ops : ops[k].op = "colorbar"
                THEN {Gcf(open)} ELSE {})

CallCore(max, fn, a, path, res) ==
    LET r == res IN
    /\ ncalls < max
    /\ ncalls' = ncalls + 1
    /\ rcParams' = RcUpdate(rcParams)
    /\ figs' = IF r.created /\ ~r.closed THEN figs \cup {NewFig} ELSE figs
    /\ files' = IF r.nsaved = 1 THEN [files EXCEPT ![path] = @ + 1] ELSE files
    /\ nfailed' = IF r.err # NoErr THEN nfailed + 1 ELSE nfailed
    /\ last' = [fn |-> fn, args |-> a, path |-> path,
                fig |-> IF r.created THEN NewFig ELSE 0,
                err |-> r.err, ops |-> r.ops, created |-> r.created,
                closed |-> r.closed, nsaved |-> r.nsaved,
                figsBefore |-> figs, filesBefore |-> files[path]]

Call(fn, a, path, res) ==
    /\ CallCore(MaxCalls, fn, a, path, res)
    /\ UNCHANGED <<thr, log>>

CallTimeseries ==
    \E a \in TsArgs, path \in Paths :
        Call("plot_timeseries", a, path, plot_timeseries(a, path))

CallPdf ==
    \E a \in PdfArgs, path \in Paths :
        Call("plot_pdf", a, path, plot_pdf(a, path))

CallCovariance ==
    \E a \in CovArgs, path \in Paths :
        Call("plot_covariance", a, path, plot_covariance(a, path))

CallConditionalExpectation ==
    \E a \in ExpArgs, path \in Paths :
        Call("plot_conditional_expectation", a, path,
             plot_conditional_expectation(a, path))

CallConditionalCorrelation ==
    \E a \in CorrArgs, path \in Paths :
        Call("plot_conditional_correlation", a, path,
             plot_conditional_correlation(a, path))

CallConditionalMutualInformation ==
    \E a \in CmiArgs, path \in Paths :
        Call("plot_conditional_mutual_information", a, path,
             plot_conditional_mutual_information(a, path))

CallEvolution ==
    \E a \in EvoArgs, path \in Paths :
        Call("visualise_evolution", a, path, visualise_evolution(a, path))

Init ==
    /\ rcParams = [k \in DOMAIN MPL_CONFIG |-> "default"]
    /\ figs = {}
    /\ files = [p \in Paths |-> 0]
    /\ last = [fn |-> None, args |-> <<>>, path |-> None, fig |-> 0,
               err |-> NoErr, ops |-> <<>>, created |-> FALSE, closed |-> FALSE,
               nsaved |-> 0, figsBefore |-> {}, filesBefore |-> 0]
    /\ ncalls = 0
    /\ nfailed = 0
    /\ thr = [t \in Threads |-> Idle]
    /\ log = <<>>

Next ==
    \/ CallTimeseries
    \/ CallPdf
    \/ CallCovariance
    \/ CallConditionalExpectation
    \/ CallConditionalCorrelation
    \/ CallConditionalMutualInformation
    \/ CallEvolution

Spec == Init /\ [][Next]_vars

\* One renderer called repeatedly
SpecTimeseries == Init /\ [][CallTimeseries]_vars
SpecPdf == Init /\ [][CallPdf]_vars
SpecCovariance == Init /\ [][CallCovariance]_vars
SpecCorrelation == Init /\ [][CallConditionalCorrelation]_vars
SpecEvolution == Init /\ [][CallEvolution]_vars

(***************************************************************************)
(* Renderer calls made from two threads.  A call is cut at its calls into  *)
(* pyplot and the file system: plt.rcParams.update, plt.subplots, the      *)
(* drawing statements, fig.savefig, plt.close.  The statements between     *)
(* two cuts touch only objects local to the call, except plt.colorbar,     *)
(* which runs gcf().colorbar(...) on the figure pyplot holds as active.    *)
(***************************************************************************)
Renderer(fn, a, path) ==
    CASE fn = "plot_timeseries" -> plot_timeseries(a, path)
      [] fn = "plot_pdf" -> plot_pdf(a, path)
      [] fn = "plot_covariance" -> plot_covariance(a, path)
      [] fn = "plot_conditional_expectation" -> plot_conditional_expectation(a, path)
      [] fn = "plot_conditional_correlation" -> plot_conditional_correlation(a, path)
      [] fn = "plot_conditional_mutual_information" ->
            plot_conditional_mutual_information(a, path)
      [] fn = "visualise_evolution" -> visualise_evolution(a, path)

\* the calls the threads make: one or two inputs of every renderer
ThreadJobs ==
    {<<"plot_timeseries", a>> : a \in {x \in TsArgs :
        x.n_nodes = 2 /\ x.S = 1 /\ x.n_samples = 1 /\ x.t_max = 10 /\ ~x.theory}}
    \cup {<<"plot_pdf", a>> : a \in {x \in PdfArgs :
        x.probs = <<2, 2>> /\ ~x.f_theory /\ ~x.logscale /\ ~x.parallel}}
    \cup {<<"plot_covariance", a>> : a \in {x \in CovArgs :
        x.ncols = Len(CovLabels) /\ x.theory = 0}}
    \cup {<<"plot_conditional_expectation", a>> : a \in {x \in ExpArgs :
        /\ x.n_cols = 2 /\ x.n_bins = 2 /\ x.n_samples = 3
        /\ x.layout = "rows" /\ ~x.theory}}
    \cup {<<"plot_conditional_correlation", a>> : a \in {x \in CorrArgs :
        /\ x.n_data = 2 /\ x.data = "1d" /\ ~x.std /\ ~x.Xrange /\ ~x.theory
        /\ ~x.threshold /\ x.supp = "none"}}
    \cup {<<"plot_conditional_mutual_information", a>> : a \in {x \in CmiArgs :
        x.n_data = 2 /\ x.n_samples = 0 /\ ~x.std /\ ~x.theory}}
    \cup {<<"visualise_evolution", a>> : a \in {x \in EvoArgs :
        x.data \in {<<1, 2, 1>>, <<0, 0>>, <<1, 2>>}}}

BodyRaised(r) == r.err \notin {NoErr, "OSError"}

\* entry of the call: plt.rcParams.update(MPL_CONFIG)
ThrBegin(t, job, path) ==
    /\ ncalls < MaxCalls
    /\ thr[t].pc \in {"idle", "done"}
    /\ ncalls' = ncalls + 1
    /\ rcParams' = RcUpdate(rcParams)
    /\ thr' = [thr EXCEPT ![t] =
            [Idle EXCEPT !.pc = "styled", !.fn = job[1], !.args = job[2],
                         !.path = path, !.res = Renderer(job[1], job[2], path),
                         !.nstyled = 1]]
    /\ UNCHANGED <<figs, files, last, nfailed, log>>

\* plt.subplots(...); visualise_evolution computes its norm first and may
\* raise there
ThrSubplots(t) ==
    /\ thr[t].pc = "styled"
    /\ IF thr[t].res.created
       THEN /\ figs' = figs \cup {NewFig}
            /\ thr' = [thr EXCEPT ![t].pc = "drawing", ![t].fig = NewFig]
            /\ UNCHANGED nfailed
       ELSE /\ thr' = [thr EXCEPT ![t].pc = "done"]
            /\ nfailed' = nfailed + 1
            /\ UNCHANGED figs
    /\ UNCHANGED <<rcParams, files, last, ncalls, log>>

\* the drawing statements up to fig.savefig
ThrDraw(t) ==
    LET r == thr[t].res
    IN /\ thr[t].pc = "drawing"
       /\ thr' = [thr EXCEPT
                ![t].pc = IF BodyRaised(r) THEN "done" ELSE "drawn",
                ![t].touched = Touched(r.ops, thr[t].fig, figs)]
       /\ nfailed' = IF BodyRaised(r) THEN nfailed + 1 ELSE nfailed
       /\ UNCHANGED <<rcParams, figs, files, last, ncalls, log>>

\* fig.savefig(output_file); visualise_evolution returns after it
ThrSavefig(t) ==
    LET r == thr[t].res
    IN /\ thr[t].pc = "drawn"
       /\ IF r.err = NoErr
          THEN /\ files' = [files EXCEPT ![thr[t].path] = @ + 1]
               /\ thr' = [thr EXCEPT ![t].pc = IF r.closed THEN "saved" ELSE "done",
                                     ![t].saved = {thr[t].fig}]
               /\ UNCHANGED nfailed
          ELSE /\ thr' = [thr EXCEPT ![t].pc = "done"]
               /\ nfailed' = nfailed + 1
               /\ UNCHANGED files
       /\ UNCHANGED <<rcParams, figs, last, ncalls, log>>

\* plt.close(fig)
ThrClose(t) ==
    /\ thr[t].pc = "saved"
    /\ figs' = figs \ {thr[t].fig}
    /\ thr' = [thr EXCEPT ![t].pc = "done", ![t].released = {thr[t].fig}]
    /\ UNCHANGED <<rcParams, files, last, ncalls, nfailed, log>>

NextThreads ==
    \/ \E t \in Threads, job \in ThreadJobs, path \in Paths : ThrBegin(t, job, path)
    \/ \E t \in Threads : ThrSubplots(t)
    \/ \E t \in Threads : ThrDraw(t)
    \/ \E t \in Threads : ThrSavefig(t)
    \/ \E t \in Threads : ThrClose(t)

SpecThreads == Init /\ [][NextThreads]_vars

(***************************************************************************)
(* Renderer calls repeated in one thread, with the calls made so far kept  *)
(* in log: what each call drew, the style in effect while it drew, and     *)
(* whether every statement addressed the call's own figure.                *)
(***************************************************************************)
RepeatPaths == {"a.pdf", "/missing/c.pdf"}

CallJob(job, path) ==
    /\ CallCore(MaxRepeat, job[1], job[2], path, Renderer(job[1], job[2], path))
    /\ log' = Append(log,
            [fn |-> last'.fn, args |-> last'.args, path |-> path,
             err |-> last'.err, ops |-> last'.ops,
             \* the style in effect after plt.rcParams.update
             style |-> rcParams',
             \* plt.subplots has made the call's figure the newest one
             own |-> last'.created =>
                        Touched(last'.ops, last'.fig, figs \cup {last'.fig})
                            \subseteq {last'.fig}])
    /\ UNCHANGED thr

NextRepeat == \E job \in ThreadJobs, path \in RepeatPaths : CallJob(job, path)

SpecRepeat == Init /\ [][NextRepeat]_vars

(***************************************************************************)
(* Properties.                                                             *)
(***************************************************************************)
Called(fn) == last.fn = fn
OpsOf(kind) == {k \in DOMAIN last.ops : last.ops[k].op = kind}
OpsOn(kind, panel) == {k \in OpsOf(kind) : last.ops[k].panel = panel}
WroteOnce == last.nsaved = 1 /\ files[last.path] = last.filesBefore + 1
WroteNothing == last.nsaved = 0 /\ files[last.path] = last.filesBefore

\* C1: after any sequence of renderer calls that all returned normally, no
\* figure created by a renderer is still open.
C1_SuccessfulCallsReleaseFigures == nfailed = 0 => figs = {}

\* C2: a call that raised after creating its figure has released that figure
\* before the exception left the call.
C2_FailingCallReleasesFigure ==
    (last.err # NoErr /\ last.created) => last.fig \notin figs

\* The documented input variants of each renderer, written to a writable path.
DocumentedInput ==
    /\ last.fn # None
    /\ Writable(last.path)
    /\ Called("plot_timeseries") => last.args.n_samples <= last.args.S
    /\ Called("plot_covariance") =>
          last.args.ncols = Len(CovLabels) /\ last.args.theory \in {0, Len(CovLabels)}
    /\ Called("plot_conditional_correlation") =>
          (last.args.supp = "dict" => last.args.dict_len = CorrGrids(last.args))
    /\ Called("visualise_evolution") =>
          Len(last.args.data) = 3 /\ EvoPositive(last.args.data) # {}

\* C3: every renderer, on every documented input variant, raises nothing and
\* writes the output file at the given path exactly once.
C3_DocumentedInputWritesOnce ==
    DocumentedInput => last.err = NoErr /\ WroteOnce

\* C4: plot_conditional_correlation with a mapping f_supplement whose size
\* differs from the number of grids raises ValueError and writes no file, in
\* list mode and in scalar mode.
C4_MappingSizeMismatchRaises ==
    (/\ Called("plot_conditional_correlation")
     /\ last.args.supp = "dict"
     /\ last.args.dict_len # CorrGrids(last.args))
    => last.err = "ValueError" /\ WroteNothing

\* the label of the supplement curve of panel i in each form
SuppLabels(i) == {"supplement", Idx("f_supplement", i) \o "[1]", Idx("f_supplement.keys()", i)}
SuppCurves(panel) ==
    {k \in OpsOn("plot", panel) :
        last.ops[k].label \in UNION {SuppLabels(i) : i \in 0..MaxData}}
CorrPanel(a, i) == IF a.list /\ a.n_data > 1 THEN <<0, i>> ELSE <<0, 0>>

\* C5: in each of the four forms of f_supplement every panel receives exactly
\* one supplement curve and the call completes and writes the output file.
C5_EverySupplementFormDraws ==
    (/\ Called("plot_conditional_correlation")
     /\ DocumentedInput
     /\ last.args.supp # "none")
    => /\ last.err = NoErr /\ WroteOnce
       /\ \A i \in 0..(CorrGrids(last.args) - 1) :
            Cardinality(SuppCurves(CorrPanel(last.args, i))) = 1

\* C6: plot_conditional_correlation plots a single-sample array raw, adds
\* the error bars when std is supplied and completes, in scalar mode as in
\* list mode; a multi-sample array is plotted as its nan-ignoring mean.
C6_SingleSampleWithStdCompletes ==
    (/\ Called("plot_conditional_correlation")
     /\ DocumentedInput
     /\ last.args.supp = "none")
    => /\ last.err = NoErr
       /\ \A i \in 0..(CorrGrids(last.args) - 1) :
            LET panel == CorrPanel(last.args, i)
                raw == IF last.args.list THEN Idx("cond_corr", i) ELSE "cond_corr"
                y == IF last.args.data = "1d" THEN raw
                     ELSE "nanmean(" \o raw \o ",axis=1)"
            IN /\ \E k \in OpsOn("scatter", panel) : last.ops[k].y = y
               /\ (last.args.data = "1d" /\ last.args.std)
                    => OpsOn("errorbar", panel) # {}

TsCurveOps == OpsOn("plot", <<0, 0>>)
TsCurveOf(n, i) == {k \in TsCurveOps : last.ops[k].y = TsData(n, i)}

\* C7 as stated: combined mode draws one curve for every (node, sample) pair
\* of the array, n_nodes times the sample-axis length curves.
C7_OneCurvePerArraySample ==
    (Called("plot_timeseries") /\ ~last.args.separate /\ last.err = NoErr)
    => Cardinality(TsCurveOps) = last.args.n_nodes * last.args.S

\* C7 amended: combined mode with n_samples within the sample axis draws
\* exactly one curve for every (node, i) pair with i < n_samples, hence
\* n_nodes * n_samples curves, all on the one shared axes, each over the
\* uniform grid of n_timesteps points from 0 to t_max, and sets the x-axis
\* to [0, t_max].
C7_OneCurvePerRequestedSample ==
    (/\ Called("plot_timeseries") /\ ~last.args.separate
     /\ last.args.n_samples <= last.args.S)
    => /\ Cardinality(TsCurveOps) = last.args.n_nodes * last.args.n_samples
       /\ OpsOf("plot") = TsCurveOps
       /\ \A n \in 0..(last.args.n_nodes - 1), i \in 0..(last.args.S - 1) :
            Cardinality(TsCurveOf(n, i)) = IF i < last.args.n_samples THEN 1 ELSE 0
       /\ \A k \in TsCurveOps :
            /\ last.ops[k].x = "T" /\ last.ops[k].lo = 0
            /\ last.ops[k].hi = last.args.t_max
            /\ last.ops[k].num = last.args.n_timesteps
       /\ \E k \in OpsOf("set_xlim") :
            /\ \A m \in OpsOf("set_xlim") : m = k
            /\ last.ops[k].lo = 0 /\ last.ops[k].hi = last.args.t_max

\* the 2 x T x 3 scenario with n_samples = 3: six curves, file written
C7_Witness ==
    /\ Called("plot_timeseries") /\ ~last.args.separate /\ last.err = NoErr
    /\ last.args.n_nodes = 2 /\ last.args.S = 3 /\ last.args.n_samples = 3
    /\ last.args.t_max = 10
    /\ Cardinality(TsCurveOps) = 6

\* C8: plot_timeseries with n_samples beyond the sample axis raises
\* IndexError in both modes and writes no file; within the axis no
\* IndexError is raised.
C8_SampleCountBeyondAxisRaisesIndexError ==
    Called("plot_timeseries") =>
        IF last.args.n_samples > last.args.S
        THEN last.err = "IndexError" /\ WroteNothing
        ELSE last.err # "IndexError"

PdfPanel(a, i) == IF a.parallel /\ PdfNodes(a) > 1 THEN <<0, i>> ELSE <<0, 0>>

\* C9: plot_pdf plots, for every 2-D node (more than one sample), one
\* scatter series of the across-sample mean and an error bar if and only if
\* logscale is False, in combined and in separated mode.
C9_ErrorBarIffNotLogscale ==
    (Called("plot_pdf") /\ last.err \in {NoErr, "OSError"})
    => \A i \in 0..(PdfNodes(last.args) - 1) :
         last.args.probs[i + 1] >= 2 =>
            LET panel == PdfPanel(last.args, i)
                means == {k \in OpsOn("scatter", panel) :
                            /\ last.ops[k].x = Idx("bins", i)
                            /\ last.ops[k].y = PdfMean(i)}
                bars == {k \in OpsOn("errorbar", panel) :
                            last.ops[k].x = Idx("bins", i)}
            IN /\ Cardinality(means) = 1
               /\ (bars # {}) <=> ~last.args.logscale

CovBodies == OpsOf("violin_body")
CovFace(i) == {k \in OpsOf("set_facecolor") : last.ops[k].num = i}

EvoImages == OpsOf("imshow")
EvoEntries(data) == {data[k] : k \in DOMAIN data}

\* C11: visualise_evolution builds one colour normalization whose minimum
\* is the smallest strictly positive entry of the whole array and whose
\* maximum is the global maximum; every heatmap panel drawn uses that
\* normalization, and the data handed to a panel is the node's slice as
\* given, zero and negative entries included.
C11_SharedNormFromPositiveMinimum ==
    (Called("visualise_evolution") /\ last.created)
    => LET data == last.args.data
           pos == {v \in EvoEntries(data) : v > 0}
       IN /\ pos # {}
          /\ EvoImages # {}
          /\ \A k \in EvoImages :
                /\ last.ops[k].label = "norm"
                /\ last.ops[k].lo \in pos
                /\ \A v \in pos : last.ops[k].lo <= v
                /\ last.ops[k].hi \in EvoEntries(data)
                /\ \A v \in EvoEntries(data) : v <= last.ops[k].hi
                /\ \E i \in 0..(Len(data) - 1) :
                      /\ last.ops[k].y = Idx("evolution_data", i)
                      /\ last.ops[k].num = data[i + 1]
          /\ \A k, m \in EvoImages :
                last.ops[k].lo = last.ops[m].lo /\ last.ops[k].hi = last.ops[m].hi

\* three nodes, one of them not positive: three panels, floor above zero,
\* the non-positive entry among the plotted data
C11_Witness ==
    /\ Called("visualise_evolution") /\ last.err = NoErr
    /\ Len(last.args.data) = 3
    /\ Cardinality(EvoImages) = 3
    /\ \E k \in EvoImages : last.ops[k].num < 0 /\ last.ops[k].lo = 2
    /\ \E k \in EvoImages : last.ops[k].num = 0 /\ last.ops[k].hi = 2

\* C12: two renderer calls running in different threads do not interfere
\* in any interleaving: each call draws only on, saves only and releases
\* only the figure it created.
C12_ConcurrentCallsTouchOnlyOwnFigure ==
    \A t \in Threads :
        /\ thr[t].touched \subseteq {thr[t].fig}
        /\ thr[t].saved \subseteq {thr[t].fig}
        /\ thr[t].released \subseteq {thr[t].fig}

StyleApplied == \A k \in DOMAIN MPL_CONFIG : rcParams[k] = MPL_CONFIG[k]

\* C14: every renderer applies the shared style exactly once per call and
\* before it creates its figure; applying it again changes nothing; after
\* any sequence of renderer calls, finished, failed or still running, every
\* key of MPL_CONFIG holds the MPL_CONFIG value (nothing restores the
\* previous style).
C14_StyleAppliedOnceBeforeFigure ==
    /\ ncalls > 0 => StyleApplied /\ RcUpdate(rcParams) = rcParams
    /\ \A t \in Threads :
          /\ thr[t].pc # "idle" => thr[t].nstyled = 1
          /\ thr[t].pc = "idle" => thr[t].nstyled = 0 /\ thr[t].fig = 0
          /\ thr[t].fig # 0 => thr[t].nstyled = 1 /\ StyleApplied
    /\ ncalls = 0 => \A k \in DOMAIN MPL_CONFIG : rcParams[k] = "default"

\* one call has returned and closed its figure, another has failed: the
\* style is still the one of MPL_CONFIG
C14_Witness ==
    /\ thr["t1"].pc = "done" /\ thr["t1"].res.err = NoErr
    /\ thr["t1"].released = {thr["t1"].fig} /\ thr["t1"].fig # 0
    /\ thr["t2"].pc = "done" /\ thr["t2"].res.err = "ValueError"
    /\ thr["t2"].fig = 0
    /\ StyleApplied
    /\ MPL_CONFIG["savefig.bbox"] # "default"

\* the last call lays out one panel per item (two for a conditional
\* expectation) and has exactly one item
SingleItemCall ==
    \/ Called("plot_timeseries") /\ last.args.separate /\ last.args.n_nodes = 1
    \/ Called("plot_pdf") /\ last.args.parallel /\ PdfNodes(last.args) = 1
    \/ Called("plot_conditional_expectation") /\ last.args.list /\ last.args.n_cols = 1
    \/ Called("plot_conditional_correlation") /\ last.args.list /\ last.args.n_data = 1
    \/ Called("plot_conditional_mutual_information")
            /\ last.args.list /\ last.args.n_data = 1

\* C15: the per-item panel layouts work for one item: separated
\* plot_timeseries and plot_pdf with one node and list-mode
\* plot_conditional_expectation, plot_conditional_correlation and
\* plot_conditional_mutual_information with a one-element list draw on
\* panel index 0 and write the output file without an indexing error.
C15_SingleItemLayoutsWork ==
    (SingleItemCall /\ DocumentedInput /\ last.args # <<>>)
    => /\ last.err \notin {"IndexError", "TypeError"}
       /\ last.ops # <<>>
       /\ WroteOnce

EvoColorbars == OpsOf("colorbar")
EvoPanels == {<<0, 0>>, <<1, 0>>, <<2, 0>>}

\* C16 as stated: visualise_evolution draws on 3 panels and keys the colour
\* bar to the third; with a node count other than 3 it raises IndexError
\* and writes no file; a file is written only for exactly 3 nodes.
C16_ThreeNodesOrIndexError ==
    Called("visualise_evolution") =>
        /\ \A k \in EvoImages : last.ops[k].panel \in EvoPanels
        /\ \A k \in EvoColorbars : last.ops[k].panel = <<2, 0>>
        /\ Len(last.args.data) # 3 => last.err = "IndexError" /\ WroteNothing
        /\ last.nsaved = 1 => Len(last.args.data) = 3

\* C16 amended: the indexing error is raised when the array has a positive
\* entry; an array without one raises ValueError before the figure exists,
\* whatever its node count.  In every case a file is written only for
\* exactly 3 nodes, and then with three heatmaps and one colour bar on the
\* third panel.
C16_ThreeNodesOrError ==
    Called("visualise_evolution") =>
        LET data == last.args.data
            positive == \E k \in DOMAIN data : data[k] > 0
        IN /\ \A k \in EvoImages : last.ops[k].panel \in EvoPanels
           /\ \A k \in EvoColorbars : last.ops[k].panel = <<2, 0>>
           /\ (Len(data) # 3 /\ positive)
                => /\ last.err = "IndexError" /\ WroteNothing
                   /\ last.created /\ EvoColorbars = {}
           /\ ~positive
                => last.err = "ValueError" /\ WroteNothing /\ ~last.created
           /\ last.nsaved = 1 => Len(data) = 3
           /\ (Len(data) = 3 /\ positive)
                => /\ Cardinality(EvoImages) = 3
                   /\ {last.ops[k].panel : k \in EvoImages} = EvoPanels
                   /\ Cardinality(EvoColorbars) = 1
                   /\ Writable(last.path) => last.err = NoErr /\ WroteOnce

\* four nodes: three panels drawn, IndexError on the fourth, no file; an
\* earlier three-node call wrote a.pdf
C16_Witness ==
    /\ Called("visualise_evolution") /\ Len(last.args.data) = 4
    /\ last.err = "IndexError" /\ Cardinality(EvoImages) = 3
    /\ last.nsaved = 0 /\ last.path = "b.pdf" /\ files["b.pdf"] = 0
    /\ files["a.pdf"] = 1

ExpBars == OpsOf("errorbar")

\* C17: plot_conditional_expectation draws each panel's error bar as the
\* supplied standard deviation divided by the square root of the number of
\* samples, in list mode and in scalar mode.
C17_ErrorBarDividesBySampleCount ==
    Called("plot_conditional_expectation") =>
        /\ \A k \in ExpBars : last.ops[k].num = last.args.n_samples
        /\ (last.err = NoErr /\ last.args.list) =>
                Cardinality(ExpBars) = 2 * last.args.n_cols

====
